---- MODULE Spec2Model ----
(***************************************************************************)
(* Model of internal/tools/parser.go (package tools): the tool-call        *)
(* extractor ParseToolCalls, the detector IsToolCallResponse and the       *)
(* prompt builder GenerateToolPrompt.                                      *)
(*                                                                         *)
(* A text is a sequence of lexemes.  Every lexeme is written as the exact  *)
(* characters it stands for (the fence excepted, see FENCE), and the text   *)
(* it denotes is the concatenation of its lexemes.  The lexemes form a prefix code, the characters '<',    *)
(* '{', '}', ':', ',' and '"' occur only where a lexeme puts them, and     *)
(* backticks occur only in runs of three, so on these texts a regular      *)
(* expression of toolCallPatterns matches a character span exactly when    *)
(* the lexeme-level matcher below matches the corresponding lexeme span,   *)
(* and strings.Replace / strings.TrimSpace act on whole lexemes.           *)
(***************************************************************************)
EXTENDS Integers, Sequences, FiniteSets, TLC

(***************************************************************************)
(* Lexemes                                                                 *)
(***************************************************************************)
OPEN   == "<tool_call>"
CLOSE  == "</tool_call>"
FENCE  == "'''"    \* three backticks (a string literal cannot hold a backtick)
JSONL  == "json"
NL     == "\n"
SP     == " "
LB     == "{"
RB     == "}"
COLON  == ":"
COMMA  == ","
WORD   == "w"

\* quoted JSON string lexemes and the string each one decodes to
StrTok == {"\"tool\"", "\"name\"", "\"type\"", "\"input\"", "\"x\"",
           "\"a\"", "\"b\"", "\"\""}

StrVal(tok) ==
    CASE tok = "\"tool\""  -> "tool"
      [] tok = "\"name\""  -> "name"
      [] tok = "\"type\""  -> "type"
      [] tok = "\"input\"" -> "input"
      [] tok = "\"x\""     -> "x"
      [] tok = "\"a\""     -> "a"
      [] tok = "\"b\""     -> "b"
      [] tok = "\"\""      -> ""

\* \s of the regular expressions, and the cutset of strings.TrimSpace
IsSpace(c) == c \in {SP, NL}

\* first position at or after i that is not white space (Len(t)+1 if none)
SkipWs(t, i) ==
    CHOOSE j \in i..(Len(t) + 1) :
        /\ \A k \in i..(j - 1) : IsSpace(t[k])
        /\ (j = Len(t) + 1 \/ ~IsSpace(t[j]))

Min(S) == CHOOSE x \in S : \A y \in S : x <= y

NoMatch == [ok |-> FALSE, at |-> 0, end |-> 0, bs |-> 0, be |-> 0]

Hit(i, e, bs, be) == [ok |-> TRUE, at |-> i, end |-> e, bs |-> bs, be |-> be]

(***************************************************************************)
(* The four envelope patterns.  XxxAt(t, i) is the match the regular       *)
(* expression prefers among those that start at position i: at..end is     *)
(* match[0] and bs..be is the capture group match[1].                      *)
(***************************************************************************)

\* (?s)<tool_call>\s*(\{.*?\})\s*</tool_call>
TaggedAt(t, i) ==
    IF t[i] # OPEN THEN NoMatch
    ELSE LET j == SkipWs(t, i + 1)
         IN IF j > Len(t) \/ t[j] # LB THEN NoMatch
            ELSE LET ks == {k \in (j + 1)..Len(t) :
                               /\ t[k] = RB
                               /\ SkipWs(t, k + 1) <= Len(t)
                               /\ t[SkipWs(t, k + 1)] = CLOSE}
                 IN IF ks = {} THEN NoMatch
                    ELSE Hit(i, SkipWs(t, Min(ks) + 1), j, Min(ks))

\* the part shared by the two fence patterns, from the position s that
\* follows the opening fence (and its label):
\*   \s*\n(\{[^`]*?"tool"[^`]*?\})\s*\n```
FenceBodyAt(t, i, s) ==
    LET j == IF s > Len(t) + 1 THEN s ELSE SkipWs(t, s)
    IN IF s > Len(t) \/ j > Len(t) \/ j = s \/ t[j - 1] # NL \/ t[j] # LB
       THEN NoMatch
       ELSE LET qs == {q \in (j + 1)..Len(t) :
                          /\ t[q] = "\"tool\""
                          /\ \A n \in (j + 1)..q : t[n] # FENCE}
            IN IF qs = {} THEN NoMatch
               ELSE LET ks == {k \in (Min(qs) + 1)..Len(t) :
                                  /\ t[k] = RB
                                  /\ \A n \in (j + 1)..k : t[n] # FENCE
                                  /\ SkipWs(t, k + 1) <= Len(t)
                                  /\ SkipWs(t, k + 1) > k + 1
                                  /\ t[SkipWs(t, k + 1) - 1] = NL
                                  /\ t[SkipWs(t, k + 1)] = FENCE}
                    IN IF ks = {} THEN NoMatch
                       ELSE Hit(i, SkipWs(t, Min(ks) + 1), j, Min(ks))

\* (?s)```json\s*\n(\{[^`]*?"tool"[^`]*?\})\s*\n```
JsonFenceAt(t, i) ==
    IF t[i] # FENCE \/ i + 1 > Len(t) THEN NoMatch
    ELSE IF t[i + 1] # JSONL THEN NoMatch
    ELSE FenceBodyAt(t, i, i + 2)

\* (?s)```\s*\n(\{[^`]*?"tool"[^`]*?\})\s*\n```
FenceAt(t, i) ==
    IF t[i] # FENCE THEN NoMatch ELSE FenceBodyAt(t, i, i + 1)

\* (\{"tool"\s*:\s*"[^"]+"\s*,\s*"[^}]+\})
InlineAt(t, i) ==
    IF t[i] # LB \/ i + 1 > Len(t) THEN NoMatch
    ELSE IF t[i + 1] # "\"tool\"" THEN NoMatch
    ELSE LET a == SkipWs(t, i + 2)
         IN IF a > Len(t) \/ t[a] # COLON THEN NoMatch
            ELSE LET b == SkipWs(t, a + 1)
                 IN IF b > Len(t) \/ t[b] \notin StrTok \/ StrVal(t[b]) = ""
                    THEN NoMatch
                    ELSE LET c == SkipWs(t, b + 1)
                         IN IF c > Len(t) \/ t[c] # COMMA THEN NoMatch
                            ELSE LET d == SkipWs(t, c + 1)
                                     ks == {k \in (d + 1)..Len(t) : t[k] = RB}
                                 IN IF d > Len(t) \/ t[d] \notin StrTok \/ ks = {}
                                    THEN NoMatch
                                    ELSE Hit(i, Min(ks), i, Min(ks))

\* variant: the bare inline pattern is listed first
toolCallPatterns_inlineFirst == <<"inline", "tagged", "jsonFence", "fence">>

\* the pattern table, in priority order
toolCallPatterns == <<"tagged", "jsonFence", "fence", "inline">>

MatchAt(pattern, t, i) ==
    CASE pattern = "tagged"    -> TaggedAt(t, i)
      [] pattern = "jsonFence" -> JsonFenceAt(t, i)
      [] pattern = "fence"     -> FenceAt(t, i)
      [] pattern = "inline"    -> InlineAt(t, i)

\* regexp.FindAllStringSubmatch(s, -1): the leftmost match, then the leftmost
\* match that starts after it, and so on; every match as
\* [at, full = match[0], body = match[1]]
RECURSIVE FindFrom(_, _, _)
FindFrom(pattern, t, from) ==
    LET starts == {i \in from..Len(t) : MatchAt(pattern, t, i).ok}
    IN IF starts = {} THEN <<>>
       ELSE LET m == MatchAt(pattern, t, Min(starts))
            IN <<[at   |-> m.at,
                  full |-> SubSeq(t, m.at, m.end),
                  body |-> SubSeq(t, m.bs, m.be)]>>
               \o FindFrom(pattern, t, m.end + 1)

FindAllStringSubmatch(pattern, s) == FindFrom(pattern, s, 1)

\* regexp.MatchString(s): some match exists
MatchString(pattern, s) == \E i \in 1..Len(s) : MatchAt(pattern, s, i).ok

(***************************************************************************)
(* encoding/json: decoded values.  A value is a string or an object; an    *)
(* object is a function from its keys to values.                           *)
(***************************************************************************)
EmptyObj == [key \in {} |-> key]

StrV(s) == [k |-> "str", s |-> s, o |-> EmptyObj]

ObjV(f) == [k |-> "obj", s |-> "", o |-> f]

ParseFail == [ok |-> FALSE, v |-> StrV(""), nx |-> 0]

\* the decoder's value and object-member grammar: white space is skipped
\* between tokens, a later duplicate key replaces the earlier one
RECURSIVE ParseValue(_, _), ParseMembers(_, _, _)
ParseValue(t, i) ==
    LET j == SkipWs(t, i)
    IN IF j > Len(t) THEN ParseFail
       ELSE IF t[j] \in StrTok
            THEN [ok |-> TRUE, v |-> StrV(StrVal(t[j])), nx |-> j + 1]
       ELSE IF t[j] = LB
            THEN LET k == SkipWs(t, j + 1)
                 IN IF k <= Len(t) /\ t[k] = RB
                    THEN [ok |-> TRUE, v |-> ObjV(EmptyObj), nx |-> k + 1]
                    ELSE ParseMembers(t, j + 1, EmptyObj)
       ELSE ParseFail

ParseMembers(t, i, acc) ==
    LET k == SkipWs(t, i)
    IN IF k > Len(t) \/ t[k] \notin StrTok THEN ParseFail
       ELSE LET c == SkipWs(t, k + 1)
            IN IF c > Len(t) \/ t[c] # COLON THEN ParseFail
               ELSE LET val == ParseValue(t, c + 1)
                    IN IF ~val.ok THEN ParseFail
                       ELSE LET e    == SkipWs(t, val.nx)
                                acc2 == (StrVal(t[k]) :> val.v) @@ acc
                            IN IF e > Len(t) THEN ParseFail
                               ELSE IF t[e] = COMMA
                                    THEN ParseMembers(t, e + 1, acc2)
                               ELSE IF t[e] = RB
                                    THEN [ok |-> TRUE, v |-> ObjV(acc2),
                                          nx |-> e + 1]
                               ELSE ParseFail

\* json.Unmarshal([]byte(jsonStr), &rawCall) with rawCall a
\* map[string]interface{}: err == nil exactly when the whole of jsonStr is
\* one JSON object
Unmarshal(jsonStr) ==
    LET r == ParseValue(jsonStr, 1)
    IN IF r.ok /\ r.v.k = "obj" /\ SkipWs(jsonStr, r.nx) = Len(jsonStr) + 1
       THEN [ok |-> TRUE, rawCall |-> r.v.o]
       ELSE [ok |-> FALSE, rawCall |-> EmptyObj]

(***************************************************************************)
(* strings                                                                 *)
(***************************************************************************)
\* strings.Replace(s, old, "", 1) for a non-empty old
Replace(s, old) ==
    LET ps == {p \in 1..(Len(s) - Len(old) + 1) :
                  SubSeq(s, p, p + Len(old) - 1) = old}
    IN IF ps = {} THEN s
       ELSE SubSeq(s, 1, Min(ps) - 1) \o SubSeq(s, Min(ps) + Len(old), Len(s))

\* strings.TrimSpace(s)
TrimSpace(s) ==
    LET keep == {p \in 1..Len(s) : ~IsSpace(s[p])}
    IN IF keep = {} THEN <<>>
       ELSE SubSeq(s, Min(keep), CHOOSE p \in keep : \A q \in keep : q <= p)

(***************************************************************************)
(* The body of the match loop of ParseToolCalls                            *)
(***************************************************************************)
\* toolName: the "tool" entry when it is a string, else the "name" entry
\* when it is a string, else ""
ToolName(rawCall) ==
    IF "tool" \in DOMAIN rawCall /\ rawCall["tool"].k = "str"
    THEN rawCall["tool"].s
    ELSE IF "name" \in DOMAIN rawCall /\ rawCall["name"].k = "str"
         THEN rawCall["name"].s
         ELSE ""

\* variant: a nested "input" object is merged with the other fields
ToolInput_merged(rawCall) ==
    LET rest == [key \in DOMAIN rawCall \ {"tool", "name", "type", "input"}
                     |-> rawCall[key]]
    IN IF "input" \in DOMAIN rawCall /\ rawCall["input"].k = "obj"
       THEN rawCall["input"].o @@ rest
       ELSE [key \in DOMAIN rawCall \ {"tool", "name", "type"} |-> rawCall[key]]

\* input: the "input" entry when it is an object, else the other fields
ToolInput(rawCall) ==
    IF "input" \in DOMAIN rawCall /\ rawCall["input"].k = "obj"
    THEN rawCall["input"].o
    ELSE [key \in DOMAIN rawCall \ {"tool", "name", "type"} |-> rawCall[key]]

\* variant: the check for an empty tool name is missing
Skipped_noNameCheck(dec) == ~dec.ok

\* the two `continue`s: decoding failed, or no tool name
Skipped(dec) == ~dec.ok \/ ToolName(dec.rawCall) = ""

\* variant: the patterns are run on the shrinking remaining text
SearchText_remaining(out, remaining) == remaining

\* the text the patterns are run on
SearchText(out, remaining) == out

\* variant: the match is removed before the decoding and name checks
NextRemaining_always(skip, remaining, full) == Replace(remaining, full)

\* remainingText after one iteration for a match with text full
NextRemaining(skip, remaining, full) ==
    IF skip THEN remaining ELSE Replace(remaining, full)

(***************************************************************************)
(* Input texts                                                             *)
(***************************************************************************)
MaxChunks  == 3     \* a text is made of at most this many chunks
MaxMembers == 3     \* a generated record has at most this many members

SeqsUpTo(S, n) == UNION {[1..k -> S] : k \in 0..n}

RECURSIVE Flatten(_)
Flatten(ss) == IF ss = <<>> THEN <<>> ELSE Head(ss) \o Flatten(Tail(ss))

\* {"tool":"a","x":"b"}
BodyA == <<LB, "\"tool\"", COLON, "\"a\"", COMMA, "\"x\"", COLON, "\"b\"", RB>>

Chunks ==
    { <<WORD>>, <<NL>>, <<OPEN>>, <<CLOSE>>,
      <<FENCE, JSONL, NL>>, <<FENCE, NL>>, <<NL, FENCE>>,
      BodyA,
      <<OPEN, LB, "\"name\"", COLON, "\"b\"", RB, CLOSE>>,
      <<LB, "\"tool\"", COLON, "\"a\"", COMMA>>,
      <<"\"x\"", COLON, "\"b\"", RB>> }

ChunkInputs == {Flatten(cs) : cs \in SeqsUpTo(Chunks, MaxChunks)}

\* {"b":"a"}
ObjB == <<LB, "\"b\"", COLON, "\"a\"", RB>>

\* members of generated records, each as key, colon, value
Members ==
    { <<"\"tool\"", COLON, "\"a\"">>, <<"\"tool\"", COLON, "\"\"">>,
      <<"\"tool\"", COLON>> \o ObjB,
      <<"\"name\"", COLON, "\"b\"">>, <<"\"name\"", COLON, "\"\"">>,
      <<"\"type\"", COLON, "\"a\"">>,
      <<"\"input\"", COLON>> \o ObjB, <<"\"input\"", COLON, "\"a\"">>,
      <<"\"x\"", COLON, "\"a\"">>, <<"\"x\"", COLON, WORD>> }

RECURSIVE Join(_)
Join(ms) ==
    IF ms = <<>> THEN <<>>
    ELSE IF Len(ms) = 1 THEN Head(ms)
    ELSE Head(ms) \o <<COMMA>> \o Join(Tail(ms))

\* <tool_call>{ members }</tool_call>
RecordInputs ==
    {<<OPEN, LB>> \o Join(ms) \o <<RB, CLOSE>> :
         ms \in SeqsUpTo(Members, MaxMembers)}

Inputs == ChunkInputs \cup RecordInputs

(***************************************************************************)
(* State                                                                   *)
(***************************************************************************)
VARIABLES
    text,           \* the AI output handed to the parser
    resp,           \* result of IsToolCallResponse(text): "unset", "true", "false"
    run,            \* number of ParseToolCalls invocations started
    pc,             \* "idle", "loop" (inside ParseToolCalls), "returned"
    output,         \* ParseToolCalls: the parameter
    calls,          \* ParseToolCalls: calls
    remainingText,  \* ParseToolCalls: remainingText
    pi,             \* index of the current pattern in toolCallPatterns
    matches,        \* matches of the current pattern
    mi,             \* index of the next match of matches
    origin,         \* history: for calls[n], the pattern and match it came from
    skipped,        \* history: the matches the loop body skipped
    tools,          \* GenerateToolPrompt: the catalog
    prompts         \* the texts returned by the GenerateToolPrompt invocations

vars == <<text, resp, run, pc, output, calls, remainingText, pi, matches, mi,
          origin, skipped, tools, prompts>>

Init ==
    /\ text \in Inputs
    /\ resp = "unset"
    /\ run = 0
    /\ pc = "idle"
    /\ output = <<>>
    /\ calls = <<>>
    /\ remainingText = <<>>
    /\ pi = 0
    /\ matches = <<>>
    /\ mi = 1
    /\ origin = <<>>
    /\ skipped = <<>>
    /\ tools = <<>>
    /\ prompts = <<>>

(***************************************************************************)
(* ParseToolCalls                                                          *)
(***************************************************************************)
\* entry: calls is nil and remainingText := output
Enter(arg) ==
    /\ output' = arg
    /\ calls' = <<>>
    /\ remainingText' = arg
    /\ pi' = 0
    /\ matches' = <<>>
    /\ mi' = 1
    /\ origin' = <<>>
    /\ skipped' = <<>>
    /\ run' = run + 1
    /\ pc' = "loop"
    /\ UNCHANGED <<text, resp, tools, prompts>>

\* ParseToolCalls(text)
Call ==
    /\ pc = "idle"
    /\ run = 0
    /\ Enter(text)

\* ParseToolCalls on the remaining text a first invocation returned
CallOnResidual ==
    /\ pc = "returned"
    /\ run = 1
    /\ Enter(remainingText)

\* for _, pattern := range toolCallPatterns { matches := ... }
NextPattern ==
    /\ pc = "loop"
    /\ mi > Len(matches)
    /\ pi < Len(toolCallPatterns)
    /\ pi' = pi + 1
    /\ matches' = FindAllStringSubmatch(toolCallPatterns[pi + 1],
                                        SearchText(output, remainingText))
    /\ mi' = 1
    /\ UNCHANGED <<text, resp, run, pc, output, calls, remainingText, origin,
                   skipped, tools, prompts>>

\* one iteration of: for _, match := range matches { ... }
ProcessMatch ==
    /\ pc = "loop"
    /\ mi <= Len(matches)
    /\ LET match == matches[mi]
           dec   == Unmarshal(match.body)
           from  == [pattern |-> toolCallPatterns[pi], at |-> match.at,
                     full |-> match.full, body |-> match.body]
       IN /\ \/ /\ ~dec.ok
                /\ Skipped(dec)
                /\ calls' = calls
                /\ origin' = origin
                /\ skipped' = Append(skipped, from)
             \/ /\ dec.ok
                /\ Skipped(dec)
                /\ calls' = calls
                /\ origin' = origin
                /\ skipped' = Append(skipped, from)
             \/ /\ ~Skipped(dec)
                /\ calls' = Append(calls, [Name  |-> ToolName(dec.rawCall),
                                           Input |-> ToolInput(dec.rawCall)])
                /\ origin' = Append(origin, from)
                /\ skipped' = skipped
          /\ remainingText' = NextRemaining(Skipped(dec), remainingText,
                                            match.full)
    /\ mi' = mi + 1
    /\ UNCHANGED <<text, resp, run, pc, output, pi, matches, tools, prompts>>

\* remainingText = strings.TrimSpace(remainingText); return
Return ==
    /\ pc = "loop"
    /\ mi > Len(matches)
    /\ pi = Len(toolCallPatterns)
    /\ remainingText' = TrimSpace(remainingText)
    /\ pc' = "returned"
    /\ UNCHANGED <<text, resp, run, output, calls, pi, matches, mi, origin,
                   skipped, tools, prompts>>

(***************************************************************************)
(* IsToolCallResponse                                                      *)
(***************************************************************************)
\* variant: the loop stops one pattern short
IsToolCallResponse_short(out) ==
    \E n \in 1..(Len(toolCallPatterns) - 1) :
        MatchString(toolCallPatterns[n], out)

IsToolCallResponse(out) ==
    \E n \in 1..Len(toolCallPatterns) : MatchString(toolCallPatterns[n], out)

Detect ==
    /\ pc \in {"idle", "returned"}
    /\ resp = "unset"
    /\ resp' = IF IsToolCallResponse(text) THEN "true" ELSE "false"
    /\ UNCHANGED <<text, run, pc, output, calls, remainingText, pi, matches,
                   mi, origin, skipped, tools, prompts>>

(***************************************************************************)
(* GenerateToolPrompt.  The returned text is the sequence of the pieces    *)
(* written to the strings.Builder; a fixed paragraph is one piece, named   *)
(* by what it says.                                                        *)
(***************************************************************************)
MaxTools       == 2     \* a catalog has at most this many tools
MaxInvocations == 2     \* GenerateToolPrompt is invoked at most this often

PromptHeader == <<"[header: tool call system, envelope format]",
                  "[example envelope]", "[available tools]">>

PromptRules  == <<"[execution rules 1-5]", "[example: write_file]",
                  "[example: bash]">>

BT == "'"    \* one backtick

\* the tool descriptors of the catalogs: Properties is a map from parameter
\* name to parameter description
PropertyMaps ==
    UNION {[ks -> {"", "e"}] : ks \in SUBSET {"p", "q"}}

ToolDefs ==
    [Name : {"bash"}, Description : {"", "d"}, Properties : PropertyMaps]

\* the orders in which `range` can visit the keys of a map
RangeOrders(m) ==
    {o \in [1..Cardinality(DOMAIN m) -> DOMAIN m] :
         \A i, j \in DOMAIN o : i # j => o[i] # o[j]}

\* p := "`" + name + "`" (+ "(" + prop.Description + ")")
ParamText(name, desc) ==
    <<BT, name, BT>> \o (IF desc # "" THEN <<"(", desc, ")">> ELSE <<>>)

\* strings.Join(params, ", ") with params appended in the visiting order
RECURSIVE JoinParams(_, _)
JoinParams(props, order) ==
    IF order = <<>> THEN <<>>
    ELSE ParamText(Head(order), props[Head(order)])
         \o (IF Len(order) > 1 THEN <<", ">> ELSE <<>>)
         \o JoinParams(props, Tail(order))

\* the body of: for _, tool := range tools
ToolSection(tool, order) ==
    <<"**", tool.Name, "**">>
    \o (IF tool.Description # "" THEN <<" - ", tool.Description>> ELSE <<>>)
    \o <<"\n">>
    \o (IF DOMAIN tool.Properties # {}
        THEN <<"[params: ]">> \o JoinParams(tool.Properties, order) \o <<"\n">>
        ELSE <<>>)
    \o <<"\n">>

RECURSIVE ToolSections(_, _)
ToolSections(ts, orders) ==
    IF ts = <<>> THEN <<>>
    ELSE ToolSection(Head(ts), Head(orders))
         \o ToolSections(Tail(ts), Tail(orders))

\* orders[n] is the order in which the properties of tools[n] are visited
GenerateToolPrompt(ts, orders) ==
    IF Len(ts) = 0 THEN <<>>
    ELSE PromptHeader \o ToolSections(ts, orders) \o PromptRules

Generate ==
    /\ Len(prompts) < MaxInvocations
    /\ \E orders \in [1..Len(tools) -> UNION {RangeOrders(d.Properties) :
                                                 d \in ToolDefs}] :
          /\ \A n \in 1..Len(tools) :
                orders[n] \in RangeOrders(tools[n].Properties)
          /\ prompts' = Append(prompts, GenerateToolPrompt(tools, orders))
    /\ UNCHANGED <<text, resp, run, pc, output, calls, remainingText, pi,
                   matches, mi, origin, skipped, tools>>

InitPrompt ==
    /\ tools \in SeqsUpTo(ToolDefs, MaxTools)
    /\ prompts = <<>>
    /\ text = <<>>
    /\ resp = "unset"
    /\ run = 0
    /\ pc = "idle"
    /\ output = <<>>
    /\ calls = <<>>
    /\ remainingText = <<>>
    /\ pi = 0
    /\ matches = <<>>
    /\ mi = 1
    /\ origin = <<>>
    /\ skipped = <<>>

NextPrompt == Generate

SpecPrompt == InitPrompt /\ [][NextPrompt]_vars

Next ==
    \/ Call
    \/ CallOnResidual
    \/ NextPattern
    \/ ProcessMatch
    \/ Return
    \/ Detect

Spec == Init /\ [][Next]_vars

(***************************************************************************)
(* Properties                                                              *)
(***************************************************************************)
\* a occurs in s as a contiguous span
IsSub(a, s) ==
    \E p \in 1..(Len(s) - Len(a) + 1) : SubSeq(s, p, p + Len(a) - 1) = a

EnvelopePatterns == {"tagged", "jsonFence", "fence", "inline"}

Rank(pattern) ==
    CASE pattern = "tagged"    -> 1
      [] pattern = "jsonFence" -> 2
      [] pattern = "fence"     -> 3
      [] pattern = "inline"    -> 4

SeqRange(q) == {q[n] : n \in 1..Len(q)}

\* the record decoded from a body, and whether the body is a usable call
RecordOf(body) == Unmarshal(body).rawCall

Named(body) == Unmarshal(body).ok /\ ToolName(RecordOf(body)) # ""

\* the span of the text a match covers
LastOf(m) == m.at + Len(m.full) - 1

Within(m, n) == n.at <= m.at /\ LastOf(m) <= LastOf(n)

\* C1: when the text holds exactly one well-formed tagged-block call (one
\* tagged match, its body decodes with a name, no fence match, and every
\* inline match lies inside that block), ParseToolCalls returns exactly one
\* call, with the record's name and input, and the trimmed text without the
\* block.
C1_OneTaggedCall ==
    pc = "returned" =>
        LET tagged == FindAllStringSubmatch("tagged", output)
        IN (/\ Len(tagged) = 1
            /\ Named(tagged[1].body)
            /\ FindAllStringSubmatch("jsonFence", output) = <<>>
            /\ FindAllStringSubmatch("fence", output) = <<>>
            /\ \A m \in SeqRange(FindAllStringSubmatch("inline", output)) :
                  Within(m, tagged[1]))
           => /\ Len(calls) = 1
              /\ calls[1].Name = ToolName(RecordOf(tagged[1].body))
              /\ calls[1].Input = ToolInput(RecordOf(tagged[1].body))
              /\ remainingText = TrimSpace(Replace(output, tagged[1].full))

\* C2: ParseToolCalls on the remaining text returned by a previous
\* ParseToolCalls returns no call.
C2_Idempotent == (run = 2 /\ pc = "returned") => calls = <<>>

\* C3: no returned call has an empty name.
C3_NameNeverEmpty == \A n \in 1..Len(calls) : calls[n].Name # ""

\* C3 witness: an invocation has returned after discarding a match whose
\* record decoded with an empty "tool" string, and returned no call for it.
C3_Witness ==
    /\ pc = "returned"
    /\ calls = <<>>
    /\ \E n \in 1..Len(skipped) :
          /\ Unmarshal(skipped[n].body).ok
          /\ "tool" \in DOMAIN RecordOf(skipped[n].body)
          /\ RecordOf(skipped[n].body)["tool"] = StrV("")

\* C4 as stated: the span of every match whose body does not decode, or
\* decodes without a name, still occurs in the returned remaining text.
C4_SpanKept ==
    pc = "returned" =>
        \A n \in 1..Len(skipped) : IsSub(skipped[n].full, remainingText)

\* C4 amended: the iteration for a match whose body does not decode, or
\* decodes without a name, appends no call and removes nothing: calls and
\* remainingText are the same after it as before it.
C4_SkipChangesNothing ==
    [][(/\ pc = "loop"
        /\ mi <= Len(matches)
        /\ mi' = mi + 1
        /\ ~Named(matches[mi].body))
       => (calls' = calls /\ remainingText' = remainingText)]_vars

\* C4 witness: an invocation has returned after skipping one match whose
\* body did not decode and one whose record had no name.
C4_Witness ==
    /\ pc = "returned"
    /\ \E n \in 1..Len(skipped) : ~Unmarshal(skipped[n].body).ok
    /\ \E n \in 1..Len(skipped) : Unmarshal(skipped[n].body).ok

\* C5: a call's input is the record's "input" object alone when the record
\* has one, and otherwise the record without the keys "tool", "name" and
\* "type", every value unchanged.
C5_InputMapping ==
    \A n \in 1..Len(calls) :
        LET rec == RecordOf(origin[n].body)
            inp == calls[n].Input
        IN IF "input" \in DOMAIN rec /\ rec["input"].k = "obj"
           THEN inp = rec["input"].o
           ELSE /\ DOMAIN inp = DOMAIN rec \ {"tool", "name", "type"}
                /\ \A key \in DOMAIN inp : inp[key] = rec[key]

\* C5 witness: a returned call whose record has a nested "input" object and
\* another, non-reserved top-level key, which is absent from the call's input.
C5_Witness ==
    /\ pc = "returned"
    /\ \E n \in 1..Len(calls) :
          LET rec == RecordOf(origin[n].body)
          IN /\ "input" \in DOMAIN rec
             /\ rec["input"].k = "obj"
             /\ "x" \in DOMAIN rec
             /\ "x" \notin DOMAIN calls[n].Input

\* C6: IsToolCallResponse(text) is true exactly when ParseToolCalls(text)
\* finds a match of some pattern, whether the match gave a call or was
\* skipped; so it is true whenever a call is returned, and true for an
\* envelope with a malformed body.
C6_DetectIffMatch ==
    (resp # "unset" /\ run = 1 /\ pc = "returned")
        => (resp = "true" <=> (calls # <<>> \/ skipped # <<>>))

\* C6 witness: the detector answered true on a text for which the parser
\* found an envelope, could not decode it, and returned no call.
C6_Witness ==
    /\ resp = "true"
    /\ run = 1
    /\ pc = "returned"
    /\ calls = <<>>
    /\ \E n \in 1..Len(skipped) : ~Unmarshal(skipped[n].body).ok

\* C7: two invocations of GenerateToolPrompt with the same catalog return
\* the same text.
C7_Deterministic ==
    \A i, j \in 1..Len(prompts) : prompts[i] = prompts[j]

\* the name C8 describes: "tool" when it is a non-empty string, otherwise
\* "name" when it is a non-empty string, otherwise none
FallbackName(rec) ==
    IF "tool" \in DOMAIN rec /\ rec["tool"].k = "str" /\ rec["tool"].s # ""
    THEN rec["tool"].s
    ELSE IF "name" \in DOMAIN rec /\ rec["name"].k = "str"
         THEN rec["name"].s
         ELSE ""

\* C8: every call is named by "tool" when that is a non-empty string and
\* otherwise by "name", and a decoded record is discarded only when neither
\* key holds a non-empty string.
C8_NameFallback ==
    /\ \A n \in 1..Len(calls) :
          calls[n].Name = FallbackName(RecordOf(origin[n].body))
    /\ \A n \in 1..Len(skipped) :
          Unmarshal(skipped[n].body).ok
              => FallbackName(RecordOf(skipped[n].body)) = ""

\* C9: the calls are ordered by pattern priority and, within one pattern,
\* by the position of their matches in the text.
C9_Order ==
    /\ Len(origin) = Len(calls)
    /\ \A i, j \in 1..Len(origin) :
          i < j => \/ Rank(origin[i].pattern) < Rank(origin[j].pattern)
                   \/ /\ origin[i].pattern = origin[j].pattern
                      /\ origin[i].at < origin[j].at

\* C9 witness: a returned list in which a call precedes another whose match
\* lies earlier in the text.
C9_Witness ==
    /\ pc = "returned"
    /\ \E i, j \in 1..Len(origin) : i < j /\ origin[j].at < origin[i].at

\* C10: every pattern's matches are those found in the original text, so a
\* call text that two patterns match and that decodes with a name under both
\* is returned once per pattern; and removing a span that no longer occurs in
\* the remaining text leaves the remaining text as it is.
C10_Independent ==
    /\ [](pc = "returned" =>
            /\ \A p \in EnvelopePatterns :
                  \A m \in SeqRange(FindAllStringSubmatch(p, output)) :
                     Named(m.body) =>
                        \E n \in 1..Len(origin) :
                           /\ origin[n].pattern = p
                           /\ origin[n].at = m.at
                           /\ calls[n].Name = ToolName(RecordOf(m.body))
            /\ \A i, j \in 1..Len(origin) :
                  (origin[i].pattern = origin[j].pattern
                   /\ origin[i].at = origin[j].at) => i = j)
    /\ [][(/\ pc = "loop"
           /\ mi <= Len(matches)
           /\ mi' = mi + 1
           /\ ~IsSub(matches[mi].full, remainingText))
          => remainingText' = remainingText]_vars

\* C10 witness: two returned calls that come from different patterns and the
\* same call text, the later one's span inside the earlier one's.
C10_Witness ==
    /\ pc = "returned"
    /\ \E i, j \in 1..Len(origin) :
          /\ i < j
          /\ origin[i].pattern # origin[j].pattern
          /\ origin[i].body = origin[j].body
          /\ Within(origin[j], origin[i])
          /\ ~IsSub(origin[j].full, remainingText)

====
